---- MODULE Spec2Model ----
(***************************************************************************)
(* The knight/bishop path-finding engine of                                *)
(* vibe_coding_samples/knight_bishop_solver.py: a KnightBishopSolver is    *)
(* constructed for a board and a bishop, and main()'s loop calls solve()   *)
(* once per method on the same start and end.  Every strategy is a state   *)
(* machine over its own local search state; one action is one iteration    *)
(* of the strategy's loop (one pop and the expansion of its 8 knight       *)
(* moves, or one call of IDA*'s recursive search).                         *)
(* Positions are <<row, col>> pairs, 0-based as in the source.             *)
(***************************************************************************)
EXTENDS Integers, Sequences, FiniteSets, TLC

\* ------------------------------------------------------------------ bounds

\* Boards of the exhaustive family: 1..MaxRows rows, 1..MaxCols columns.
MaxRows == 3
MaxCols == 3

\* Boards of the wide family: 1..MaxWideRows rows, AutoLimit + 1 columns.
MaxWideRows == 2

\* Boards of the family run to completion: rows + cols <= MaxLiveSize.
MaxLiveSize == 6

\* Boards of the family with two calls at a time: rows + cols <= MaxSharedSize.
MaxSharedSize == 5

\* solve(): "if self.rows <= 8 and self.cols <= 8" selects bidirectional_bfs.
AutoLimit == 8

\* ------------------------------------------------------------ value types

Position(r, c) == <<r, c>>

abs(x) == IF x < 0 THEN -x ELSE x

max(a, b) == IF a >= b THEN a ELSE b

\* self.knight_moves, in the order __init__ lists them.
knight_moves ==
  << <<-2, -1>>, <<-2, 1>>, <<-1, -2>>, <<-1, 2>>,
     <<1, -2>>, <<1, 2>>, <<2, -1>>, <<2, 1>> >>

\* The four diagonal directions of _get_bishop_line_of_sight, in its order.
directions == << <<1, 1>>, <<1, -1>>, <<-1, 1>>, <<-1, -1>> >>

\* The "0 <= r < self.rows and 0 <= c < self.cols" test.
on_board(nrows, ncols, r, c) == 0 <= r /\ r < nrows /\ 0 <= c /\ c < ncols

\* walk cut short: only the square next to the bishop is added.
walk_one_step(nrows, ncols, r, c, d_row, d_col, line_of_sight) ==
  IF ~on_board(nrows, ncols, r + d_row, c + d_col)
  THEN line_of_sight
  ELSE line_of_sight \cup {Position(r + d_row, c + d_col)}

\* The "while True" walk of one direction: step, stop off the board, else add.
RECURSIVE walk(_, _, _, _, _, _, _)
walk(nrows, ncols, r, c, d_row, d_col, line_of_sight) ==
  LET r2 == r + d_row
      c2 == c + d_col
  IN  IF ~on_board(nrows, ncols, r2, c2)
      THEN line_of_sight
      ELSE walk(nrows, ncols, r2, c2, d_row, d_col,
                line_of_sight \cup {Position(r2, c2)})

\* _get_bishop_line_of_sight: the bishop's square, then the four walks.
RECURSIVE walk_directions(_, _, _, _, _)
walk_directions(nrows, ncols, b, i, line_of_sight) ==
  IF i > Len(directions)
  THEN line_of_sight
  ELSE walk_directions(nrows, ncols, b, i + 1,
         walk(nrows, ncols, b[1], b[2], directions[i][1], directions[i][2],
              line_of_sight))

_get_bishop_line_of_sight(nrows, ncols, b) ==
  walk_directions(nrows, ncols, b, 1, {Position(b[1], b[2])})

VARIABLES
  rows, cols, bishop_pos, bishop_line_of_sight,   \* the solver (self)
  start, end,                                     \* the caller's start and end
  methods, mi,                                    \* the caller's loop over methods
  call,                                           \* the method solve() was called with
  method,                                         \* solve()'s method after auto-selection
  pc,                                             \* where the running call stands
  result,                                         \* moves returned, per called method
  queue, visited,                                 \* bfs locals
  forward_queue, backward_queue,                  \* bidirectional_bfs locals
  forward_visited, backward_visited,
  open_set, g_scores, closed_set,                 \* a_star locals
  bound, path, frames,                            \* ida_star locals and search's call stack
  suspended,                                      \* a second call's frame while its thread waits
  expanded,                                       \* positions the running call has expanded
  expansions                                      \* positions expanded, per called method

solver == <<rows, cols, bishop_pos, bishop_line_of_sight, start, end>>

bfs_locals == <<queue, visited>>

bidirectional_locals ==
  <<forward_queue, backward_queue, forward_visited, backward_visited>>

a_star_locals == <<open_set, g_scores, closed_set>>

ida_star_locals == <<bound, path, frames>>

\* What no step of a strategy's loop touches before it returns.
outside == <<solver, methods, mi, call, method, result, suspended, expansions>>

vars == <<solver, methods, mi, call, method, pc, result, bfs_locals,
          bidirectional_locals, a_star_locals, ida_star_locals, suspended,
          expanded, expansions>>

\* The frame of the running call of solve(): its arguments, its position and
\* the locals of the strategy it runs.
frame ==
  [call |-> call, method |-> method, pc |-> pc,
   queue |-> queue, visited |-> visited,
   forward_queue |-> forward_queue, backward_queue |-> backward_queue,
   forward_visited |-> forward_visited, backward_visited |-> backward_visited,
   open_set |-> open_set, g_scores |-> g_scores, closed_set |-> closed_set,
   bound |-> bound, path |-> path, frames |-> frames, expanded |-> expanded]

\* The frame of a thread that is in no call.
no_call ==
  [call |-> "", method |-> "", pc |-> "idle",
   queue |-> <<>>, visited |-> {},
   forward_queue |-> <<>>, backward_queue |-> <<>>,
   forward_visited |-> <<>>, backward_visited |-> <<>>,
   open_set |-> {}, g_scores |-> <<>>, closed_set |-> {},
   bound |-> 0, path |-> <<>>, frames |-> <<>>, expanded |-> 0]

\* _is_valid_position without its line-of-sight test: every square of the
\* board is valid.
_is_on_board(pos) == on_board(rows, cols, pos[1], pos[2])

\* _is_valid_position with a line of sight that lasts one pass of the
\* caller's methods: once "auto" has returned the bishop is forgotten.
_is_valid_first_pass(pos) ==
  /\ on_board(rows, cols, pos[1], pos[2])
  /\ ("auto" \in DOMAIN result \/ pos \notin bishop_line_of_sight)

\* _is_valid_position
_is_valid_position(pos) ==
  IF ~on_board(rows, cols, pos[1], pos[2]) THEN FALSE
  ELSE IF pos \in bishop_line_of_sight THEN FALSE
  ELSE TRUE

\* _manhattan_distance, the solver's other distance: as a heuristic it
\* overestimates (a knight covers a Manhattan distance of 3 in one move).
_manhattan_distance(pos1, pos2) ==
  abs(pos1[1] - pos2[1]) + abs(pos1[2] - pos2[2])

\* A heuristic that grows towards the target: a_star expands the positions
\* farthest from it first.
_towards_target(pos, target) ==
  rows + cols - (abs(pos[1] - target[1]) + abs(pos[2] - target[2]))

\* _knight_distance_heuristic
_knight_distance_heuristic(pos, target) ==
  LET dr == abs(pos[1] - target[1])
      dc == abs(pos[2] - target[2])
  IN  IF dr = 0 /\ dc = 0 THEN 0
      ELSE IF dr = 0 /\ dc = 1 THEN 3
      ELSE IF dr = 1 /\ dc = 0 THEN 3
      ELSE IF dr = 1 /\ dc = 1 THEN 2
      ELSE max((dr + 1) \div 2, (dc + 1) \div 2)

\* Position(pos.row + d_row, pos.col + d_col) for the i-th knight move.
next_position(pos, i) ==
  Position(pos[1] + knight_moves[i][1], pos[2] + knight_moves[i][2])

\* ------------------------------------------------------------------- bfs

\* bfs_expand with the bishop forgotten: a neighbour is queued when it is on the
\* board and not visited, seen by the bishop or not.
RECURSIVE bfs_expand_through_sight(_, _, _, _, _)
bfs_expand_through_sight(pos, moves, i, q, vis) ==
  IF i > Len(knight_moves)
  THEN [returned |-> FALSE, value |-> 0, queue |-> q, visited |-> vis]
  ELSE LET next_pos == next_position(pos, i)
       IN  IF next_pos = end
           THEN [returned |-> TRUE, value |-> moves + 1, queue |-> q, visited |-> vis]
           ELSE IF on_board(rows, cols, next_pos[1], next_pos[2])
                   /\ next_pos \notin vis
                THEN bfs_expand_through_sight(pos, moves, i + 1,
                                Append(q, <<next_pos, moves + 1>>),
                                vis \cup {next_pos})
                ELSE bfs_expand_through_sight(pos, moves, i + 1, q, vis)

\* bfs_expand validating a move before comparing it with end: an end the
\* bishop sees is never found, though a start it sees is still left.
RECURSIVE bfs_expand_validates_end(_, _, _, _, _)
bfs_expand_validates_end(pos, moves, i, q, vis) ==
  IF i > Len(knight_moves)
  THEN [returned |-> FALSE, value |-> 0, queue |-> q, visited |-> vis]
  ELSE LET next_pos == next_position(pos, i)
       IN  IF ~_is_valid_position(next_pos)
           THEN bfs_expand_validates_end(pos, moves, i + 1, q, vis)
           ELSE IF next_pos = end
           THEN [returned |-> TRUE, value |-> moves + 1, queue |-> q, visited |-> vis]
           ELSE IF next_pos \notin vis
                THEN bfs_expand_validates_end(pos, moves, i + 1,
                                Append(q, <<next_pos, moves + 1>>),
                                vis \cup {next_pos})
                ELSE bfs_expand_validates_end(pos, moves, i + 1, q, vis)

\* The "for d_row, d_col in self.knight_moves" loop of bfs for one dequeued
\* (pos, moves), from the i-th move on: returns as soon as end is generated.
RECURSIVE bfs_expand(_, _, _, _, _)
bfs_expand(pos, moves, i, q, vis) ==
  IF i > Len(knight_moves)
  THEN [returned |-> FALSE, value |-> 0, queue |-> q, visited |-> vis]
  ELSE LET next_pos == next_position(pos, i)
       IN  IF next_pos = end
           THEN [returned |-> TRUE, value |-> moves + 1, queue |-> q, visited |-> vis]
           ELSE IF _is_valid_position(next_pos) /\ next_pos \notin vis
                THEN bfs_expand(pos, moves, i + 1,
                                Append(q, <<next_pos, moves + 1>>),
                                vis \cup {next_pos})
                ELSE bfs_expand(pos, moves, i + 1, q, vis)

\* ------------------------------------------------------ bidirectional_bfs

\* frontier_expand with the meeting's total one short: the move onto the
\* meeting square is not counted.
RECURSIVE frontier_expand_short(_, _, _, _, _, _)
frontier_expand_short(pos, moves, i, q, vis, other) ==
  IF i > Len(knight_moves)
  THEN [returned |-> FALSE, value |-> 0, queue |-> q, visited |-> vis]
  ELSE LET next_pos == next_position(pos, i)
       IN  IF _is_valid_position(next_pos)
              /\ (next_pos \notin DOMAIN vis \/ moves + 1 < vis[next_pos])
           THEN LET vis2 == (next_pos :> (moves + 1)) @@ vis
                    q2 == Append(q, <<next_pos, moves + 1>>)
                IN  IF next_pos \in DOMAIN other
                    THEN [returned |-> TRUE,
                          value |-> moves + other[next_pos],
                          queue |-> q2, visited |-> vis2]
                    ELSE frontier_expand_short(pos, moves, i + 1, q2, vis2, other)
           ELSE frontier_expand_short(pos, moves, i + 1, q, vis, other)

\* frontier_expand with the meeting's total two over: each frontier's last
\* move is counted twice.
RECURSIVE frontier_expand_long(_, _, _, _, _, _)
frontier_expand_long(pos, moves, i, q, vis, other) ==
  IF i > Len(knight_moves)
  THEN [returned |-> FALSE, value |-> 0, queue |-> q, visited |-> vis]
  ELSE LET next_pos == next_position(pos, i)
       IN  IF _is_valid_position(next_pos)
              /\ (next_pos \notin DOMAIN vis \/ moves + 1 < vis[next_pos])
           THEN LET vis2 == (next_pos :> (moves + 1)) @@ vis
                    q2 == Append(q, <<next_pos, moves + 1>>)
                IN  IF next_pos \in DOMAIN other
                    THEN [returned |-> TRUE,
                          value |-> moves + 3 + other[next_pos],
                          queue |-> q2, visited |-> vis2]
                    ELSE frontier_expand_long(pos, moves, i + 1, q2, vis2, other)
           ELSE frontier_expand_long(pos, moves, i + 1, q, vis, other)

\* frontier_expand recording a generated position one move too low: its queue
\* entry is stale when it is popped.
RECURSIVE frontier_expand_stale(_, _, _, _, _, _)
frontier_expand_stale(pos, moves, i, q, vis, other) ==
  IF i > Len(knight_moves)
  THEN [returned |-> FALSE, value |-> 0, queue |-> q, visited |-> vis]
  ELSE LET next_pos == next_position(pos, i)
       IN  IF _is_valid_position(next_pos)
              /\ (next_pos \notin DOMAIN vis \/ moves + 1 < vis[next_pos])
           THEN LET vis2 == (next_pos :> moves) @@ vis
                    q2 == Append(q, <<next_pos, moves + 1>>)
                IN  IF next_pos \in DOMAIN other
                    THEN [returned |-> TRUE,
                          value |-> moves + 1 + other[next_pos],
                          queue |-> q2, visited |-> vis2]
                    ELSE frontier_expand_stale(pos, moves, i + 1, q2, vis2, other)
           ELSE frontier_expand_stale(pos, moves, i + 1, q, vis, other)

\* One frontier's "for d_row, d_col in self.knight_moves" loop for the popped
\* (pos, moves), from the i-th move on.  q and vis are this frontier's queue
\* and visited map, other the other frontier's visited map: a position newly
\* recorded here that the other frontier has recorded ends the search.
RECURSIVE frontier_expand(_, _, _, _, _, _)
frontier_expand(pos, moves, i, q, vis, other) ==
  IF i > Len(knight_moves)
  THEN [returned |-> FALSE, value |-> 0, queue |-> q, visited |-> vis]
  ELSE LET next_pos == next_position(pos, i)
       IN  IF _is_valid_position(next_pos)
              /\ (next_pos \notin DOMAIN vis \/ moves + 1 < vis[next_pos])
           THEN LET vis2 == (next_pos :> (moves + 1)) @@ vis
                    q2 == Append(q, <<next_pos, moves + 1>>)
                IN  IF next_pos \in DOMAIN other
                    THEN [returned |-> TRUE,
                          value |-> moves + 1 + other[next_pos],
                          queue |-> q2, visited |-> vis2]
                    ELSE frontier_expand(pos, moves, i + 1, q2, vis2, other)
           ELSE frontier_expand(pos, moves, i + 1, q, vis, other)

\* ---------------------------------------------------------------- a_star

\* Python's order of the heap's (f_score, moves, position) tuples.
tuple_less(a, b) ==
  \/ a[1] < b[1]
  \/ a[1] = b[1] /\ a[2] < b[2]
  \/ a[1] = b[1] /\ a[2] = b[2] /\ a[3][1] < b[3][1]
  \/ a[1] = b[1] /\ a[2] = b[2] /\ a[3][1] = b[3][1] /\ a[3][2] < b[3][2]

\* heapq.heappop: the smallest entry of the heap.
heappop(heap) == CHOOSE e \in heap : \A o \in heap : o = e \/ tuple_less(e, o)

\* a_star_expand pushing a valid neighbour whenever its g-score differs from
\* the recorded one, better or worse.
RECURSIVE a_star_expand_always(_, _, _, _, _)
a_star_expand_always(pos, moves, i, heap, g) ==
  IF i > Len(knight_moves)
  THEN [returned |-> FALSE, value |-> 0, open_set |-> heap, g_scores |-> g]
  ELSE LET next_pos == next_position(pos, i)
           next_g_score == moves + 1
       IN  IF next_pos = end
           THEN [returned |-> TRUE, value |-> moves + 1,
                 open_set |-> heap, g_scores |-> g]
           ELSE IF _is_valid_position(next_pos)
                   /\ (next_pos \notin DOMAIN g \/ next_g_score # g[next_pos])
                THEN LET f_score ==
                           next_g_score + _knight_distance_heuristic(next_pos, end)
                     IN  a_star_expand_always(pos, moves, i + 1,
                           heap \cup {<<f_score, next_g_score, next_pos>>},
                           (next_pos :> next_g_score) @@ g)
                ELSE a_star_expand_always(pos, moves, i + 1, heap, g)

\* a_star_expand recording a g-score one below the moves it pushes: every
\* entry is stale when it is popped.
RECURSIVE a_star_expand_stale(_, _, _, _, _)
a_star_expand_stale(pos, moves, i, heap, g) ==
  IF i > Len(knight_moves)
  THEN [returned |-> FALSE, value |-> 0, open_set |-> heap, g_scores |-> g]
  ELSE LET next_pos == next_position(pos, i)
           next_g_score == moves + 1
       IN  IF next_pos = end
           THEN [returned |-> TRUE, value |-> moves + 1,
                 open_set |-> heap, g_scores |-> g]
           ELSE IF _is_valid_position(next_pos)
                   /\ (next_pos \notin DOMAIN g \/ next_g_score < g[next_pos])
                THEN LET f_score ==
                           next_g_score + _knight_distance_heuristic(next_pos, end)
                     IN  a_star_expand_stale(pos, moves, i + 1,
                           heap \cup {<<f_score, next_g_score, next_pos>>},
                           (next_pos :> moves) @@ g)
                ELSE a_star_expand_stale(pos, moves, i + 1, heap, g)

\* a_star's "for d_row, d_col in self.knight_moves" loop for the popped
\* (pos, moves), from the i-th move on.
RECURSIVE a_star_expand(_, _, _, _, _)
a_star_expand(pos, moves, i, heap, g) ==
  IF i > Len(knight_moves)
  THEN [returned |-> FALSE, value |-> 0, open_set |-> heap, g_scores |-> g]
  ELSE LET next_pos == next_position(pos, i)
           next_g_score == moves + 1
       IN  IF next_pos = end
           THEN [returned |-> TRUE, value |-> moves + 1,
                 open_set |-> heap, g_scores |-> g]
           ELSE IF _is_valid_position(next_pos)
                   /\ (next_pos \notin DOMAIN g \/ next_g_score < g[next_pos])
                THEN LET f_score ==
                           next_g_score + _knight_distance_heuristic(next_pos, end)
                     IN  a_star_expand(pos, moves, i + 1,
                           heap \cup {<<f_score, next_g_score, next_pos>>},
                           (next_pos :> next_g_score) @@ g)
                ELSE a_star_expand(pos, moves, i + 1, heap, g)

\* -------------------------------------------------------------- ida_star

\* float("inf"): greater than every f = g + h a search can compute, since g is
\* below the number of squares and h at most 3 or half a board side.
inf == rows * cols + rows + cols + 4

\* Front(s): s without its last element (path.pop()).
Front(s) == SubSeq(s, 1, Len(s) - 1)

RECURSIVE search_loop(_, _, _, _)
RECURSIVE search_return(_, _, _)

\* search_loop with one path for every call of ida_star: a position on the
\* waiting call's path counts as on this one's.
search_loop_shared_path(p, fs, i, min_bound) ==
  IF i > Len(knight_moves)
  THEN search_return(p, fs, min_bound)
  ELSE LET next_pos == next_position(p[Len(p)], i)
       IN  IF _is_valid_position(next_pos)
              /\ next_pos \notin {p[k] : k \in 1..Len(p)}
              /\ next_pos \notin {suspended.path[k] : k \in 1..Len(suspended.path)}
           THEN [called |-> TRUE, t |-> 0, path |-> Append(p, next_pos),
                 frames |-> Append(fs, [i |-> i, min_bound |-> min_bound])]
           ELSE search_loop(p, fs, i + 1, min_bound)

\* search_loop without the "next_pos not in path" test: a probe may step back
\* onto a position it already holds.
search_loop_revisits(p, fs, i, min_bound) ==
  IF i > Len(knight_moves)
  THEN search_return(p, fs, min_bound)
  ELSE LET next_pos == next_position(p[Len(p)], i)
       IN  IF _is_valid_position(next_pos)
           THEN [called |-> TRUE, t |-> 0, path |-> Append(p, next_pos),
                 frames |-> Append(fs, [i |-> i, min_bound |-> min_bound])]
           ELSE search_loop(p, fs, i + 1, min_bound)

\* search() as a machine.  path's last position is the pos of the running call
\* of search and Len(path) - 1 its g; fs holds one frame per caller above
\* it: the index i of the knight move whose recursive call is running and the
\* caller's min_bound.  search_loop runs the "for" loop of the running call from
\* move i on, up to its next recursive call or its return; search_return hands
\* t to the caller.
search_loop(p, fs, i, min_bound) ==
  IF i > Len(knight_moves)
  THEN search_return(p, fs, min_bound)
  ELSE LET next_pos == next_position(p[Len(p)], i)
       IN  IF _is_valid_position(next_pos)
              /\ next_pos \notin {p[k] : k \in 1..Len(p)}
           THEN [called |-> TRUE, t |-> 0, path |-> Append(p, next_pos),
                 frames |-> Append(fs, [i |-> i, min_bound |-> min_bound])]
           ELSE search_loop(p, fs, i + 1, min_bound)

search_return(p, fs, t) ==
  IF fs = <<>>
  THEN [called |-> FALSE, t |-> t, path |-> p, frames |-> fs]
  ELSE IF t < 0
       THEN search_return(p, Front(fs), t)
       ELSE LET fr == fs[Len(fs)]
                mb == IF t < fr.min_bound THEN t ELSE fr.min_bound
            IN  search_loop(Front(p), Front(fs), fr.i + 1, mb)

\* search returning the bound it was given, not f, when f exceeds it: the
\* next iteration of ida_star deepens to the same bound.
search_stuck(p, fs, b) ==
  LET pos == p[Len(p)]
      g == Len(p) - 1
      f == g + _knight_distance_heuristic(pos, end)
  IN  IF f > b THEN search_return(p, fs, b)
      ELSE IF pos = end THEN search_return(p, fs, -g)
      ELSE search_loop(p, fs, 1, inf)

\* The body of search(pos, g, bound) for the call on top of path.
search(p, fs, b) ==
  LET pos == p[Len(p)]
      g == Len(p) - 1
      f == g + _knight_distance_heuristic(pos, end)
  IN  IF f > b THEN search_return(p, fs, f)
      ELSE IF pos = end THEN search_return(p, fs, -g)
      ELSE search_loop(p, fs, 1, inf)

\* ------------------------------------------------------------------ main

\* main(): methods = ["bfs", "bidirectional_bfs", "a_star", "ida_star", "auto"],
\* each passed to solver.solve(start, end, method) in turn.
main_methods == <<"bfs", "bidirectional_bfs", "a_star", "ida_star", "auto">>

\* The test suite on one of its cases: test_bfs_on_all calls solve with "bfs",
\* test_all_cases with the case's method, which is "auto" in every case.
test_methods == <<"bfs", "auto">>

Squares(nrows, ncols) == (0 .. nrows - 1) \X (0 .. ncols - 1)

\* KnightBishopSolver(rows, cols, bishop_pos), before the first solve() call of
\* a caller that loops over the methods ms.
Construct(nrows, ncols, b, s, e, ms) ==
  /\ methods = ms
  /\ rows = nrows
  /\ cols = ncols
  /\ bishop_pos = b
  /\ bishop_line_of_sight = _get_bishop_line_of_sight(nrows, ncols, b)
  /\ start = s
  /\ end = e
  /\ mi = 1
  /\ call = ""
  /\ method = ""
  /\ pc = "idle"
  /\ result = [m \in {} |-> 0]
  /\ queue = <<>>
  /\ visited = {}
  /\ forward_queue = <<>>
  /\ backward_queue = <<>>
  /\ forward_visited = <<>>
  /\ backward_visited = <<>>
  /\ open_set = {}
  /\ g_scores = <<>>
  /\ closed_set = {}
  /\ bound = 0
  /\ path = <<>>
  /\ frames = <<>>
  /\ suspended = no_call
  /\ expanded = 0
  /\ expansions = [m \in {} |-> 0]

\* Every board of up to MaxRows x MaxCols, with every bishop, start and end on it.
InitSmall ==
  \E nrows \in 1 .. MaxRows, ncols \in 1 .. MaxCols :
    \E b \in Squares(nrows, ncols), s \in Squares(nrows, ncols),
       e \in Squares(nrows, ncols) :
      Construct(nrows, ncols, b, s, e, main_methods)

\* TEST_CASES[1] (the 1x17 corridor), [3], [26], [37] and [47] (the 10x21 board
\* of test_interesting_case), as (start, goal, board_size, bishop_pos).
TestCases ==
  { << <<0, 11>>, <<0, 14>>, <<1, 17>>, <<0, 5>> >>,
    << <<0, 0>>, <<0, 4>>, <<20, 20>>, <<0, 1>> >>,
    << <<11, 5>>, <<15, 2>>, <<16, 6>>, <<3, 4>> >>,
    << <<8, 32>>, <<20, 30>>, <<98, 36>>, <<35, 6>> >>,
    << <<0, 10>>, <<9, 4>>, <<10, 21>>, <<4, 6>> >> }

InitCases ==
  \E tc \in TestCases :
    Construct(tc[3][1], tc[3][2], tc[4], tc[1], tc[2], main_methods)

Init == InitSmall \/ InitCases

\* The test suite's calls ("bfs", then "auto") on every small board and on
\* every board of AutoLimit + 1 columns and up to MaxWideRows rows, the
\* narrowest boards on which auto selects a_star.
InitAuto ==
  \/ \E nrows \in 1 .. MaxRows, ncols \in 1 .. MaxCols :
       \E b \in Squares(nrows, ncols), s \in Squares(nrows, ncols),
          e \in Squares(nrows, ncols) :
         Construct(nrows, ncols, b, s, e, test_methods)
  \/ \E nrows \in 1 .. MaxWideRows :
       \E b \in Squares(nrows, AutoLimit + 1), s \in Squares(nrows, AutoLimit + 1),
          e \in Squares(nrows, AutoLimit + 1) :
         Construct(nrows, AutoLimit + 1, b, s, e, test_methods)
  \/ \E tc \in TestCases :
       Construct(tc[3][1], tc[3][2], tc[4], tc[1], tc[2], test_methods)

\* ----------------------------------------------------------------- solve

\* A strategy that never takes its "start == end" shortcut.
never_equal(s, e) == FALSE

\* "if start == end: return 0", the first statement of every strategy.
start_equals_end(s, e) == s = e

\* auto-selection by the number of rows alone.
auto_select_by_rows(m) ==
  IF m = "auto"
  THEN IF rows <= AutoLimit THEN "bidirectional_bfs" ELSE "a_star"
  ELSE m

\* auto-selection followed by a dispatch that falls back to bfs on a method
\* it does not know.
auto_select_or_default(m) ==
  IF m = "auto"
  THEN IF rows <= AutoLimit /\ cols <= AutoLimit
       THEN "bidirectional_bfs"
       ELSE "a_star"
  ELSE IF m \in {"bfs", "bidirectional_bfs", "a_star", "ida_star"} THEN m
  ELSE "bfs"

\* "if method == 'auto'": bidirectional_bfs on a board of at most 8x8, else a_star.
auto_select(m) ==
  IF m = "auto"
  THEN IF rows <= AutoLimit /\ cols <= AutoLimit
       THEN "bidirectional_bfs"
       ELSE "a_star"
  ELSE m

\* The iteration the running call is about to make expands a position: it
\* pops an entry and reaches the "for" loop over knight_moves.  bfs's loop does
\* so for every entry it pops, bidirectional_bfs's and a_star's for every entry
\* that is not stale; ida_star has no queue and pops nothing.
expands ==
  CASE pc = "bfs" -> TRUE
    [] pc = "bidirectional_bfs" ->
         LET pos == Head(forward_queue)[1]
             moves == Head(forward_queue)[2]
         IN  ~(pos \in DOMAIN forward_visited /\ forward_visited[pos] < moves)
    [] pc = "backward" ->
         LET pos == Head(backward_queue)[1]
             moves == Head(backward_queue)[2]
         IN  ~(pos \in DOMAIN backward_visited /\ backward_visited[pos] < moves)
    [] pc = "a_star" ->
         LET top == heappop(open_set)
         IN  ~(top[3] \in closed_set /\ g_scores[top[3]] < top[2])
    [] OTHER -> FALSE

\* The positions the running call has expanded once that iteration is made.
counted == IF expands THEN expanded + 1 ELSE expanded

\* A return that drops the obstacle set, as if it belonged to the call.
return_and_forget(v) ==
  /\ result' = (call :> v) @@ result
  /\ pc' = "idle"
  /\ call' = ""
  /\ method' = ""
  /\ queue' = <<>>
  /\ visited' = {}
  /\ forward_queue' = <<>>
  /\ backward_queue' = <<>>
  /\ forward_visited' = <<>>
  /\ backward_visited' = <<>>
  /\ open_set' = {}
  /\ g_scores' = <<>>
  /\ closed_set' = {}
  /\ bound' = 0
  /\ path' = <<>>
  /\ frames' = <<>>
  /\ expansions' = (call :> counted) @@ expansions
  /\ expanded' = 0
  /\ bishop_line_of_sight' = {}
  /\ UNCHANGED <<rows, cols, bishop_pos, start, end, methods, mi, suspended>>

\* A strategy returns v to solve(), which returns it to main(): the strategy's
\* locals are gone.
Return(v) ==
  /\ result' = (call :> v) @@ result
  /\ pc' = "idle"
  /\ call' = ""
  /\ method' = ""
  /\ queue' = <<>>
  /\ visited' = {}
  /\ forward_queue' = <<>>
  /\ backward_queue' = <<>>
  /\ forward_visited' = <<>>
  /\ backward_visited' = <<>>
  /\ open_set' = {}
  /\ g_scores' = <<>>
  /\ closed_set' = {}
  /\ bound' = 0
  /\ path' = <<>>
  /\ frames' = <<>>
  /\ expansions' = (call :> counted) @@ expansions
  /\ expanded' = 0
  /\ UNCHANGED <<solver, methods, mi, suspended>>

\* solve(start, end, method) up to the first iteration of the strategy's loop:
\* the auto-selection, the dispatch, the strategy's "if start == end: return 0"
\* and the initialisation of its locals.
Solve ==
  /\ pc = "idle"
  /\ mi <= Len(methods)
  /\ mi' = mi + 1
  /\ UNCHANGED <<solver, methods, suspended>>
  /\ LET m == methods[mi]
         selected == auto_select(m)
     IN  IF selected \notin {"bfs", "bidirectional_bfs", "a_star", "ida_star"}
         THEN \* raise ValueError(f"Unknown method: {method}")
              /\ pc' = "raised"
              /\ call' = m
              /\ method' = selected
              /\ UNCHANGED <<result, bfs_locals, bidirectional_locals,
                             a_star_locals, ida_star_locals,
                             expanded, expansions>>
         ELSE IF start_equals_end(start, end)
         THEN /\ result' = (m :> 0) @@ result
              /\ expansions' = (m :> 0) @@ expansions
              /\ UNCHANGED <<pc, call, method, bfs_locals, bidirectional_locals,
                             a_star_locals, ida_star_locals, expanded>>
         ELSE /\ call' = m
              /\ method' = selected
              /\ pc' = selected
              /\ expanded' = 0
              /\ UNCHANGED <<result, expansions>>
              /\ IF selected = "bfs"
                 THEN /\ queue' = << <<start, 0>> >>
                      /\ visited' = {start}
                 ELSE UNCHANGED bfs_locals
              /\ IF selected = "bidirectional_bfs"
                 THEN /\ forward_queue' = << <<start, 0>> >>
                      /\ backward_queue' = << <<end, 0>> >>
                      /\ forward_visited' = (start :> 0)
                      /\ backward_visited' = (end :> 0)
                 ELSE UNCHANGED bidirectional_locals
              /\ IF selected = "a_star"
                 THEN /\ open_set' =
                           {<<_knight_distance_heuristic(start, end), 0, start>>}
                      /\ g_scores' = (start :> 0)
                      /\ closed_set' = {}
                 ELSE UNCHANGED a_star_locals
              /\ IF selected = "ida_star"
                 THEN /\ bound' = _knight_distance_heuristic(start, end)
                      /\ path' = <<start>>
                      /\ frames' = <<>>
                 ELSE UNCHANGED ida_star_locals

\* One iteration of bfs's "while queue" loop; the loop's exit returns -1.
BfsStep ==
  /\ pc = "bfs"
  /\ LET pos == Head(queue)[1]
         moves == Head(queue)[2]
         x == bfs_expand(pos, moves, 1, Tail(queue), visited)
     IN  IF x.returned THEN Return(x.value)
         ELSE IF x.queue = <<>> THEN Return(-1)
         ELSE /\ queue' = x.queue
              /\ visited' = x.visited
              /\ expanded' = counted
              /\ UNCHANGED <<outside, pc,
                             bidirectional_locals, a_star_locals, ida_star_locals>>

\* The forward half of one iteration of bidirectional_bfs's loop.  Its stale
\* entry "continue" goes back to the loop's test, skipping the backward half.
ForwardStep ==
  /\ pc = "bidirectional_bfs"
  /\ LET pos == Head(forward_queue)[1]
         moves == Head(forward_queue)[2]
         rest == Tail(forward_queue)
     IN  IF pos \in DOMAIN forward_visited /\ forward_visited[pos] < moves
         THEN IF rest = <<>> THEN Return(-1)
              ELSE /\ forward_queue' = rest
                   /\ expanded' = counted
                   /\ UNCHANGED <<outside, pc, bfs_locals,
                                  backward_queue, forward_visited, backward_visited,
                                  a_star_locals, ida_star_locals>>
         ELSE LET x == frontier_expand(pos, moves, 1, rest, forward_visited,
                                       backward_visited)
              IN  IF x.returned THEN Return(x.value)
                  ELSE /\ forward_queue' = x.queue
                       /\ forward_visited' = x.visited
                       /\ pc' = "backward"
                       /\ expanded' = counted
                       /\ UNCHANGED <<outside, bfs_locals,
                                      backward_queue, backward_visited,
                                      a_star_locals, ida_star_locals>>

\* The backward half of the iteration, then the loop's test
\* "while forward_queue and backward_queue", whose exit returns -1.
BackwardStep ==
  /\ pc = "backward"
  /\ LET pos == Head(backward_queue)[1]
         moves == Head(backward_queue)[2]
         rest == Tail(backward_queue)
     IN  IF pos \in DOMAIN backward_visited /\ backward_visited[pos] < moves
         THEN IF forward_queue = <<>> \/ rest = <<>> THEN Return(-1)
              ELSE /\ backward_queue' = rest
                   /\ pc' = "bidirectional_bfs"
                   /\ expanded' = counted
                   /\ UNCHANGED <<outside, bfs_locals,
                                  forward_queue, forward_visited, backward_visited,
                                  a_star_locals, ida_star_locals>>
         ELSE LET x == frontier_expand(pos, moves, 1, rest, backward_visited,
                                       forward_visited)
              IN  IF x.returned THEN Return(x.value)
                  ELSE IF forward_queue = <<>> \/ x.queue = <<>> THEN Return(-1)
                  ELSE /\ backward_queue' = x.queue
                       /\ backward_visited' = x.visited
                       /\ pc' = "bidirectional_bfs"
                       /\ expanded' = counted
                       /\ UNCHANGED <<outside, bfs_locals,
                                      forward_queue, forward_visited,
                                      a_star_locals, ida_star_locals>>

\* One iteration of a_star's "while open_set" loop; the loop's exit returns -1.
AStarStep ==
  /\ pc = "a_star"
  /\ LET top == heappop(open_set)
         moves == top[2]
         pos == top[3]
         rest == open_set \ {top}
     IN  IF pos \in closed_set /\ g_scores[pos] < moves
         THEN IF rest = {} THEN Return(-1)
              ELSE /\ open_set' = rest
                   /\ expanded' = counted
                   /\ UNCHANGED <<outside, pc, bfs_locals,
                                  bidirectional_locals, g_scores, closed_set,
                                  ida_star_locals>>
         ELSE LET x == a_star_expand(pos, moves, 1, rest, g_scores)
              IN  IF x.returned THEN Return(x.value)
                  ELSE IF x.open_set = {} THEN Return(-1)
                  ELSE /\ open_set' = x.open_set
                       /\ g_scores' = x.g_scores
                       /\ closed_set' = closed_set \cup {pos}
                       /\ expanded' = counted
                       /\ UNCHANGED <<outside, pc,
                                      bfs_locals, bidirectional_locals,
                                      ida_star_locals>>

\* One call of ida_star's search(), run up to the next call of search(); when
\* the outermost call returns, the rest of the "while True" iteration: return
\* -t, return -1, or start the next iteration with bound = t and path = [start].
IdaStep ==
  /\ pc = "ida_star"
  /\ LET x == search(path, frames, bound)
     IN  IF x.called
         THEN /\ path' = x.path
              /\ frames' = x.frames
              /\ expanded' = counted
              /\ UNCHANGED <<outside, pc, bfs_locals,
                             bidirectional_locals, a_star_locals, bound>>
         ELSE IF x.t < 0 THEN Return(-x.t)
         ELSE IF x.t = inf THEN Return(-1)
         ELSE /\ bound' = x.t
              /\ path' = <<start>>
              /\ frames' = <<>>
              /\ expanded' = counted
              /\ UNCHANGED <<outside, pc, bfs_locals,
                             bidirectional_locals, a_star_locals>>

Next ==
  \/ Solve
  \/ BfsStep
  \/ ForwardStep
  \/ BackwardStep
  \/ AStarStep
  \/ IdaStep

Spec == Init /\ [][Next]_vars

\* main() on every board with rows + cols <= MaxLiveSize, with every bishop,
\* start and end on it, and on the TEST_CASES boards.
InitLive ==
  \/ \E nrows \in 1 .. MaxLiveSize - 1 :
       \E ncols \in 1 .. MaxLiveSize - nrows :
         \E b \in Squares(nrows, ncols), s \in Squares(nrows, ncols),
            e \in Squares(nrows, ncols) :
           Construct(nrows, ncols, b, s, e, main_methods)
  \/ InitCases

\* The program runs on: a call that can take a step takes it.
SpecLive == InitLive /\ [][Next]_vars /\ WF_vars(Next)

\* Method strings solve() does not know.
unknown_methods == {"dijkstra", "BFS", ""}

\* Callers of solve(): one that calls every method of main() and then each
\* again in the reverse order, and one per unknown method that calls it between
\* two known ones.
callers ==
  {main_methods \o <<"auto", "ida_star", "a_star", "bidirectional_bfs", "bfs">>}
    \cup {<<"bfs", u, "a_star">> : u \in unknown_methods}

\* Those callers on every board with rows + cols <= MaxLiveSize, with every
\* bishop, start and end on it, and on the TEST_CASES boards.
InitCaller ==
  \E ms \in callers :
    \/ \E nrows \in 1 .. MaxLiveSize - 1 :
         \E ncols \in 1 .. MaxLiveSize - nrows :
           \E b \in Squares(nrows, ncols), s \in Squares(nrows, ncols),
              e \in Squares(nrows, ncols) :
             Construct(nrows, ncols, b, s, e, ms)
    \/ \E tc \in TestCases :
         Construct(tc[3][1], tc[3][2], tc[4], tc[1], tc[2], ms)

SpecCaller == InitCaller /\ [][Next]_vars

\* Two threads that call solve() on one solver: each takes the next method
\* of the list when it is in no call.  The list is a, b, a for every strategy
\* a, with b either a again or ida_star, whose path is a closure's variable.
shared_callers ==
  {<<a, b, a>> : <<a, b>> \in
     {ab \in {"bfs", "bidirectional_bfs", "a_star", "ida_star"}
               \X {"bfs", "bidirectional_bfs", "a_star", "ida_star"} :
        ab[2] \in {ab[1], "ida_star"}}}

\* Those threads on every board with rows + cols <= MaxSharedSize, with every
\* bishop, start and end on it.
InitShared ==
  \E ms \in shared_callers :
    \E nrows \in 1 .. MaxSharedSize - 1 :
      \E ncols \in 1 .. MaxSharedSize - nrows :
        \E b \in Squares(nrows, ncols), s \in Squares(nrows, ncols),
           e \in Squares(nrows, ncols) :
          Construct(nrows, ncols, b, s, e, ms)

\* The scheduler takes the running thread off and puts the waiting one on:
\* the two frames change places.  The solver is the one object both use.
Switch ==
  /\ suspended # frame
  /\ suspended' = frame
  /\ call' = suspended.call
  /\ method' = suspended.method
  /\ pc' = suspended.pc
  /\ queue' = suspended.queue
  /\ visited' = suspended.visited
  /\ forward_queue' = suspended.forward_queue
  /\ backward_queue' = suspended.backward_queue
  /\ forward_visited' = suspended.forward_visited
  /\ backward_visited' = suspended.backward_visited
  /\ open_set' = suspended.open_set
  /\ g_scores' = suspended.g_scores
  /\ closed_set' = suspended.closed_set
  /\ bound' = suspended.bound
  /\ path' = suspended.path
  /\ frames' = suspended.frames
  /\ expanded' = suspended.expanded
  /\ UNCHANGED <<solver, methods, mi, result, expansions>>

NextShared ==
  \/ Solve
  \/ BfsStep
  \/ ForwardStep
  \/ BackwardStep
  \/ AStarStep
  \/ IdaStep
  \/ Switch

SpecShared == InitShared /\ [][NextShared]_vars

\* A caller that asks bfs for the way there and then for the way back:
\* solver.solve(start, end, "bfs"), then solver.solve(end, start, "bfs"), on
\* every board of InitLive's sizes and on the test cases.
InitSwap ==
  \/ \E nrows \in 1 .. MaxLiveSize - 1 :
       \E ncols \in 1 .. MaxLiveSize - nrows :
         \E b \in Squares(nrows, ncols), s \in Squares(nrows, ncols),
            e \in Squares(nrows, ncols) :
           Construct(nrows, ncols, b, s, e, <<"bfs">>)
  \/ \E tc \in TestCases :
       Construct(tc[3][1], tc[3][2], tc[4], tc[1], tc[2], <<"bfs">>)

\* The caller, its call returned, swaps its start and end for the next call.
Swap ==
  /\ pc = "idle"
  /\ mi > Len(methods)
  /\ start' = end
  /\ end' = start
  /\ mi' = 1
  /\ UNCHANGED <<rows, cols, bishop_pos, bishop_line_of_sight, methods, call,
                 method, pc, result, bfs_locals, bidirectional_locals,
                 a_star_locals, ida_star_locals, suspended, expanded,
                 expansions>>

NextSwap ==
  \/ Solve
  \/ BfsStep
  \/ Swap

SpecSwap == InitSwap /\ [][NextSwap]_vars

\* The test suite's callers never select ida_star.
NextAuto ==
  \/ Solve
  \/ BfsStep
  \/ ForwardStep
  \/ BackwardStep
  \/ AStarStep

SpecAuto == InitAuto /\ [][NextAuto]_vars

\* ------------------------------------------------------------ reference
\* What the claims are measured against, stated without the solver's code.

\* The squares of the board.
Board == (0 .. rows - 1) \X (0 .. cols - 1)

\* A square the bishop sees: its own, or one on a diagonal through it.
Seen(p) == abs(p[1] - bishop_pos[1]) = abs(p[2] - bishop_pos[2])

\* A square a knight may stand on: on the board and not seen by the bishop.
Free(p) == p \in Board /\ ~Seen(p)

\* The squares one knight move away from p, on the board or not.
KnightSteps(p) ==
  {<<p[1] + dr, p[2] + dc>> :
     <<dr, dc>> \in {d \in {-2, -1, 1, 2} \X {-2, -1, 1, 2} : abs(d[1]) # abs(d[2])}}

\* The length of a shortest knight path to `to` from a square of `frontier`,
\* the squares exactly k moves from the origin, through free squares only, or
\* with `open` through any square of the board (reached holds the squares at
\* most k moves away); -1 when there is none.
RECURSIVE Layers(_, _, _, _, _)
Layers(frontier, reached, to, k, open) ==
  IF frontier = {} THEN -1
  ELSE LET nxt == UNION {KnightSteps(p) : p \in frontier}
       IN  IF to \in nxt THEN k + 1
           ELSE LET fresh == {q \in nxt : q \in Board /\ (open \/ Free(q))} \ reached
                IN  Layers(fresh, reached \cup fresh, to, k + 1, open)

\* The minimum number of knight moves from `from` to `to` over the paths whose
\* intermediate squares are all free; -1 when no such path exists.
MinMoves(from, to) ==
  IF from = to THEN 0 ELSE Layers({from}, {from}, to, 0, FALSE)

\* The same on the board without the bishop.
MinMovesOpen(from, to) ==
  IF from = to THEN 0 ELSE Layers({from}, {from}, to, 0, TRUE)

Reachable(from, to) == MinMoves(from, to) # -1

strategies == {"bfs", "bidirectional_bfs", "a_star", "ida_star"}

Returned(m) == m \in DOMAIN result

\* solve(start, end, m) has just returned to its caller.
Finished(m) == pc = "idle" /\ mi > 1 /\ methods[mi - 1] = m /\ Returned(m)

\* ---------------------------------------------------------------- claims

\* C1: whenever a knight path from start to end through free squares exists,
\* bfs returns the minimum number of moves of such a path.
BfsReturnsMinimum ==
  (Finished("bfs") /\ Reachable(start, end)) =>
    result["bfs"] = MinMoves(start, end)

\* C1's case: bfs has returned the length of a path of at least four moves that
\* has to avoid a square the bishop sees.
BfsFoundLongPath ==
  /\ Returned("bfs")
  /\ result["bfs"] >= 4
  /\ \E q \in KnightSteps(start) : q \in Board /\ Seen(q) /\ q # end

\* C2: for start and end both free, a_star returns exactly what bfs returns,
\* -1 included.
AStarAgreesWithBfs ==
  (Returned("bfs") /\ Returned("a_star") /\ Free(start) /\ Free(end)) =>
    result["a_star"] = result["bfs"]

\* C2's case: both have returned for free, distinct start and end at least three
\* moves apart.
AStarFoundLongPath ==
  /\ Returned("bfs")
  /\ Returned("a_star")
  /\ Free(start)
  /\ Free(end)
  /\ result["a_star"] >= 3

\* C3: for start and end both free, ida_star returns exactly what bfs returns,
\* -1 included.
IdaStarAgreesWithBfs ==
  (Returned("bfs") /\ Returned("ida_star") /\ Free(start) /\ Free(end)) =>
    result["ida_star"] = result["bfs"]

\* C3's case: ida_star has returned after deepening its bound, for free start
\* and end at least three moves apart.
IdaStarFoundLongPath ==
  /\ Returned("bfs")
  /\ Returned("ida_star")
  /\ Free(start)
  /\ Free(end)
  /\ result["ida_star"] >= 3
  /\ result["ida_star"] > _knight_distance_heuristic(start, end)

\* C4: for start and end both free, bidirectional_bfs returns the minimum number
\* of knight moves, which is what bfs and a_star return, or -1 when there is no
\* path.
BidirectionalReturnsMinimum ==
  (Returned("bidirectional_bfs") /\ Free(start) /\ Free(end)) =>
    /\ Finished("bidirectional_bfs") =>
         result["bidirectional_bfs"] = MinMoves(start, end)
    /\ Returned("bfs") => result["bidirectional_bfs"] = result["bfs"]
    /\ Returned("a_star") => result["bidirectional_bfs"] = result["a_star"]

\* C4's case: the two frontiers met for free start and end at least four moves
\* apart, and bfs and a_star have returned too.
BidirectionalFoundLongPath ==
  /\ Returned("bfs")
  /\ Returned("bidirectional_bfs")
  /\ Returned("a_star")
  /\ Free(start)
  /\ Free(end)
  /\ result["bidirectional_bfs"] >= 4

\* TEST_CASES[47], the case of test_interesting_case.
Case47 ==
  /\ rows = 10
  /\ cols = 21
  /\ bishop_pos = <<4, 6>>
  /\ start = <<0, 10>>
  /\ end = <<9, 4>>

AutoAgreesWithBfs ==
  (Returned("bfs") /\ Returned("auto")) => result["auto"] = result["bfs"]

\* C6's case: auto has run a_star on a board wider than AutoLimit and found a
\* path of at least four moves around the bishop's line of sight.
AutoSolvedWideBoard ==
  /\ Returned("bfs")
  /\ Returned("auto")
  /\ cols > AutoLimit
  /\ result["auto"] >= 4
  /\ \E q \in KnightSteps(start) : q \in Board /\ Seen(q)

\* TEST_CASES[1]: the 1x17 corridor.
Corridor ==
  /\ rows = 1
  /\ cols = 17
  /\ bishop_pos = <<0, 5>>
  /\ start = <<0, 11>>
  /\ end = <<0, 14>>

\* C7: for free start # end, each strategy returns -1 exactly when no knight
\* path through free squares joins start to end, and a positive number
\* otherwise; on the 1x17 corridor every strategy returns -1.
MinusOneIffNoPath ==
  \A m \in strategies :
    (Finished(m) /\ Free(start) /\ Free(end) /\ start # end) =>
      /\ (result[m] = -1) <=> ~Reachable(start, end)
      /\ result[m] # -1 => result[m] > 0
      /\ Corridor => result[m] = -1

\* C7's case: the four strategies have all returned on the 1x17 corridor.
CorridorSolved ==
  /\ Corridor
  /\ \A m \in strategies : Returned(m)

\* C8 as stated: whether or not the bishop sees start or end, each strategy
\* returns the minimum length of a knight path from start to end whose
\* intermediate squares are free (-1 when there is none), as bfs does.
SeedsAreNeverValidated ==
  \A m \in strategies :
    Finished(m) =>
      /\ result[m] = MinMoves(start, end)
      /\ Returned("bfs") => result[m] = result["bfs"]

\* Every position a strategy holds.
Held ==
  {queue[i][1] : i \in 1 .. Len(queue)} \cup visited
    \cup {forward_queue[i][1] : i \in 1 .. Len(forward_queue)}
    \cup {backward_queue[i][1] : i \in 1 .. Len(backward_queue)}
    \cup DOMAIN forward_visited \cup DOMAIN backward_visited
    \cup {e[3] : e \in open_set} \cup DOMAIN g_scores \cup closed_set
    \cup {path[i] : i \in 1 .. Len(path)}

\* C9: every position held in a frontier, a visited or closed set, a g-score map
\* or IDA*'s path, start and end apart, is on the board and not seen by the
\* bishop; and no strategy returns a move count below the shortest path over
\* free squares, as a path through a seen square could.
HeldPositionsAreFree ==
  /\ \A p \in Held \ {start, end} : Free(p)
  /\ \A m \in strategies :
       (Finished(m) /\ result[m] # -1) =>
         /\ Reachable(start, end)
         /\ result[m] >= MinMoves(start, end)

\* C9's case: a running strategy holds a position next to a square the bishop
\* sees and has left that square out.
SeenSquareLeftOut ==
  \E p \in Held :
    \E q \in KnightSteps(p) :
      /\ q \in Board
      /\ Seen(q)
      /\ q \notin {start, end}
      /\ q \notin Held
      /\ Cardinality(Held \ {start, end}) >= 3

\* C10: the heuristic never exceeds the minimum number of knight moves to a
\* reachable target, on the board without the bishop and over the squares the
\* bishop leaves free.  It is read off a_star's heap: the entry to pop next is
\* (f_score, moves, position) with f_score - moves the heuristic from position
\* to end, and the first entry of a search is start's.
HeuristicAdmissible ==
  pc = "a_star" =>
    LET top == heappop(open_set)
        h == top[1] - top[2]
    IN  /\ h = _knight_distance_heuristic(top[3], end)
        /\ MinMovesOpen(top[3], end) # -1 => h <= MinMovesOpen(top[3], end)
        /\ Reachable(top[3], end) => h <= MinMoves(top[3], end)

\* C10's case: a_star has pushed a position one row or one column from end,
\* where the heuristic is 3, and end is exactly 3 moves from it.
HeuristicTight ==
  \E e \in open_set :
    /\ e[1] - e[2] = 3
    /\ MinMoves(e[3], end) = 3

\* C11: when start = end every strategy, and auto, returns 0 without expanding
\* a position, whether the bishop sees that square or not: no strategy ever
\* runs and no frontier, visited map, heap or path ever holds a position.
ReflexiveCallsReturnZero ==
  start = end =>
    /\ pc = "idle"
    /\ Held = {}
    /\ \A m \in DOMAIN result : result[m] = 0
    /\ mi > Len(methods) => \A m \in strategies \cup {"auto"} : Returned(m)

\* C11's case: the five methods have returned for start = end on a square the
\* bishop sees.
ReflexiveCallsOnSeenSquare ==
  /\ start = end
  /\ Seen(start)
  /\ \A m \in strategies \cup {"auto"} : Returned(m)

\* The strategy whose loop the running call is in.
Running ==
  IF pc \in {"bidirectional_bfs", "backward"} THEN "bidirectional_bfs"
  ELSE IF pc \in {"bfs", "a_star", "ida_star"} THEN pc
  ELSE "none"

\* C12: solve with "auto" runs bidirectional_bfs exactly when rows <= 8 and
\* cols <= 8 and a_star otherwise; it runs no other strategy.
AutoSelectsBySize ==
  (call = "auto" /\ pc # "idle") =>
    /\ Running = (IF rows <= 8 /\ cols <= 8 THEN "bidirectional_bfs" ELSE "a_star")
    /\ method = Running
    /\ queue = <<>> /\ path = <<>>
    /\ Running = "a_star" => forward_queue = <<>> /\ backward_queue = <<>>
    /\ Running = "bidirectional_bfs" => open_set = {}

\* C12's case: auto runs a_star on a board of more than 8 rows and at most 8
\* columns.
AutoOnTallBoard ==
  /\ call = "auto"
  /\ rows > 8
  /\ cols <= 8
  /\ pc = "a_star"
  /\ closed_set # {}

\* The solver as its constructor leaves it, before the first call.
Constructed == pc = "idle" /\ mi = 1

\* C17: the line of sight built at construction is exactly the set of squares
\* (r, c) of the board with |r - bishop.row| = |c - bishop.col|.
LineOfSightIsDiagonals ==
  Constructed =>
    /\ bishop_pos \in Board
    /\ bishop_line_of_sight =
         {p \in Board : abs(p[1] - bishop_pos[1]) = abs(p[2] - bishop_pos[2])}

\* C17's case: a bishop off the board's edge, with rays of different lengths.
BishopInside ==
  /\ Constructed
  /\ bishop_pos[1] \notin {0, rows - 1}
  /\ bishop_pos[2] \notin {0, cols - 1}
  /\ rows - bishop_pos[1] > bishop_pos[1] + 2
  /\ Cardinality(bishop_line_of_sight) > 9

\* The positions a strategy can test: the board and the two rows and columns
\* around it that a knight move can reach.
Probes == (-2 .. rows + 1) \X (-2 .. cols + 1)

\* C18: _is_valid_position(p) is true exactly when p is within the board and
\* not in the line-of-sight set; the bishop's own square is never valid.
ValidIffOnBoardAndUnseen ==
  Constructed =>
    /\ \A p \in Probes :
         _is_valid_position(p) <=>
           /\ 0 <= p[1] /\ p[1] < rows
           /\ 0 <= p[2] /\ p[2] < cols
           /\ p \notin bishop_line_of_sight
    /\ ~_is_valid_position(bishop_pos)

\* C18's case: the board has valid squares, squares in the line of sight other
\* than the bishop's, and probes off the board.
ValidAndSeenSquares ==
  /\ Constructed
  /\ \E p \in Probes : _is_valid_position(p)
  /\ \E p \in bishop_line_of_sight : p # bishop_pos
  /\ \E p \in Probes : p \notin Board

\* The entry at the head of q is one the "continue" skips: its position is
\* recorded in vis with fewer moves.
Stale(q, vis) == Head(q)[1] \in DOMAIN vis /\ vis[Head(q)[1]] < Head(q)[2]

\* q2 is q after one pop and the appends of one expansion.
PoppedAndExpanded(q, q2) ==
  /\ Len(q2) >= Len(q) - 1
  /\ SubSeq(q2, 1, Len(q) - 1) = Tail(q)

\* C19: in bidirectional_bfs an iteration that does not return is one forward
\* pop-and-expand followed by one backward pop-and-expand; the entry popped is
\* never stale, and no pop is made from an empty queue.
FrontiersAlternate ==
  /\ [](/\ pc = "bidirectional_bfs" =>
             /\ forward_queue # <<>>
             /\ backward_queue # <<>>
             /\ ~Stale(forward_queue, forward_visited)
        /\ pc = "backward" =>
             /\ backward_queue # <<>>
             /\ ~Stale(backward_queue, backward_visited))
  /\ [][/\ pc = "bidirectional_bfs" =>
             /\ pc' \in {"backward", "idle"}
             /\ pc' = "backward" =>
                  /\ PoppedAndExpanded(forward_queue, forward_queue')
                  /\ backward_queue' = backward_queue
                  /\ backward_visited' = backward_visited
        /\ pc = "backward" =>
             /\ pc' \in {"bidirectional_bfs", "idle"}
             /\ pc' = "bidirectional_bfs" =>
                  /\ PoppedAndExpanded(backward_queue, backward_queue')
                  /\ forward_queue' = forward_queue
                  /\ forward_visited' = forward_visited]_vars

\* C19's case: the third iteration's backward step is about to pop, both
\* frontiers having grown.
ThirdBackwardStep ==
  /\ pc = "backward"
  /\ Head(backward_queue)[2] >= 2
  /\ Len(forward_queue) >= 2
  /\ Len(backward_queue) >= 2

\* The index of the first knight move from pos onto a free square that the
\* frontier with visited map vis has not recorded and the other frontier has;
\* 0 when there is none.
Meeting(pos, vis, other) ==
  LET hits == {i \in 1 .. Len(knight_moves) :
                 /\ Free(next_position(pos, i))
                 /\ next_position(pos, i) \notin DOMAIN vis
                 /\ next_position(pos, i) \in DOMAIN other}
  IN  IF hits = {} THEN 0 ELSE CHOOSE i \in hits : \A j \in hits : i <= j

\* A step of the frontier (q, vis) returns as soon as it generates a position
\* the other frontier has recorded, with that position's two move counts
\* added; otherwise it returns no move count.
MeetsAndReturns(q, vis, other) ==
  LET pos == Head(q)[1]
      moves == Head(q)[2]
      i == Meeting(pos, vis, other)
  IN  IF i # 0
      THEN /\ pc' = "idle"
           /\ result'[call] = (moves + 1) + other[next_position(pos, i)]
      ELSE pc' = "idle" => result'[call] = -1

\* C20: no position is in both visited maps while bidirectional_bfs runs; the
\* first newly generated position of one frontier that the other has recorded
\* ends the search, and the value returned is its forward move count plus its
\* backward move count.
FrontiersMeetOnce ==
  /\ [](pc \in {"bidirectional_bfs", "backward"} =>
          DOMAIN forward_visited \cap DOMAIN backward_visited = {})
  /\ [][/\ pc = "bidirectional_bfs" =>
             MeetsAndReturns(forward_queue, forward_visited, backward_visited)
        /\ pc = "backward" =>
             MeetsAndReturns(backward_queue, backward_visited, forward_visited)]_vars

\* C20's case: the backward frontier is about to generate a position the
\* forward frontier recorded at two moves or more.
FrontiersAboutToMeet ==
  /\ pc = "backward"
  /\ Meeting(Head(backward_queue)[1], backward_visited, forward_visited) # 0
  /\ \E p \in DOMAIN forward_visited :
       /\ forward_visited[p] >= 2
       /\ p = next_position(Head(backward_queue)[1],
                Meeting(Head(backward_queue)[1], backward_visited, forward_visited))

\* C14: every strategy terminates: a call that has entered bfs,
\* bidirectional_bfs, a_star or ida_star returns, whether end can be reached or
\* not, and the caller's loop over its methods ends with a result for each.
EveryStrategyReturns ==
  <>(/\ pc = "idle"
     /\ mi > Len(methods)
     /\ \A m \in strategies : Returned(m))

\* C14's case: ida_star has deepened its bound and then exhausted the squares
\* it can reach without finding end, and the other three have returned -1 too.
ExhaustedWithoutPath ==
  /\ \A m \in strategies : Returned(m) /\ result[m] = -1
  /\ Free(start)
  /\ Free(end)
  /\ Cardinality({p \in Board : Free(p) /\ Reachable(start, p)}) >= 3

\* The method strings solve() dispatches on.
known_methods == strategies \cup {"auto"}

\* C13: solve called with a method other than "bfs", "bidirectional_bfs",
\* "a_star", "ida_star" and "auto" raises: no strategy runs, no result is
\* returned for it, then or later, and the caller's next call is never made.
UnknownMethodRaises ==
  /\ [](/\ \A m \in DOMAIN result : m \in known_methods
        /\ pc = "raised" =>
             /\ call \notin known_methods
             /\ method = call
             /\ Held = {})
  /\ [][/\ (pc = "idle" /\ mi <= Len(methods) /\ methods[mi] \notin known_methods) =>
             /\ pc' = "raised"
             /\ result' = result
        /\ (pc = "idle" /\ mi <= Len(methods) /\ methods[mi] \in known_methods) =>
             pc' # "raised"
        /\ pc # "raised"]_vars

\* C13's case: solve has raised on the method "BFS", after a call of "bfs"
\* that returned.
RaisedOnUnknownMethod ==
  /\ pc = "raised"
  /\ call = "BFS"
  /\ Returned("bfs")
  /\ result["bfs"] > 0

\* C15: a call of solve returns what every earlier call with the same start,
\* end and method returned, whatever calls were made before or between them:
\* no call changes the solver, and nothing of a call is left when it returns.
SolveIsDeterministic ==
  /\ [](pc = "idle" =>
          /\ Held = {}
          /\ bound = 0
          /\ frames = <<>>
          /\ call = "")
  /\ [][/\ \A m \in DOMAIN result :
             m \in DOMAIN result' /\ result'[m] = result[m]
        /\ UNCHANGED <<rows, cols, bishop_pos, bishop_line_of_sight>>]_vars

\* C15's case: ida_star runs for the second time, after every method has
\* returned, and returns a path of three moves or more.
SecondCallOfIdaStar ==
  /\ pc = "ida_star"
  /\ \A m \in known_methods : Returned(m)
  /\ result["ida_star"] >= 3
  /\ Len(path) >= 3

\* C16: two calls of solve on one solver whose steps interleave in any order
\* each return what the same call returns alone: a step of one call leaves the
\* other call's frame and the solver as they are, and a method's result is the
\* same whenever and however interleaved it is computed.
InterleavedCallsAgree ==
  [][/\ \A m \in DOMAIN result :
          m \in DOMAIN result' /\ result'[m] = result[m]
     /\ UNCHANGED <<rows, cols, bishop_pos, bishop_line_of_sight>>
     /\ \/ suspended' = suspended
        \/ suspended' = frame /\ frame' = suspended]_vars

\* C16's case: two calls of ida_star are under way at once, each with a path
\* of its own that differs from the other's, after an earlier call of ida_star
\* has returned.
TwoIdaStarCallsUnderWay ==
  /\ pc = "ida_star"
  /\ suspended.pc = "ida_star"
  /\ Len(path) >= 2
  /\ suspended.path # <<>>
  /\ path # suspended.path
  /\ Returned("ida_star")

\* C21: for free start and end, a move count n >= 0 that bidirectional_bfs
\* returns is at least what bfs returns and at most one more; it is the length
\* of a knight path over free squares, so end can be reached and n is no less
\* than the minimum.
BidirectionalWithinOneOfBfs ==
  (/\ Returned("bfs")
   /\ Returned("bidirectional_bfs")
   /\ Free(start)
   /\ Free(end)
   /\ result["bidirectional_bfs"] >= 0) =>
    /\ result["bfs"] >= 0
    /\ result["bidirectional_bfs"] >= result["bfs"]
    /\ result["bidirectional_bfs"] <= result["bfs"] + 1
    /\ Finished("bidirectional_bfs") =>
         /\ Reachable(start, end)
         /\ result["bidirectional_bfs"] >= MinMoves(start, end)

\* C21's case: both have returned an odd count of three moves or more for free
\* start and end, the frontiers having met between two squares.
BidirectionalOddMeeting ==
  /\ Returned("bfs")
  /\ Returned("bidirectional_bfs")
  /\ Free(start)
  /\ Free(end)
  /\ result["bidirectional_bfs"] >= 3
  /\ result["bidirectional_bfs"] % 2 = 1

\* C22: bfs dequeues its (position, moves) entries in non-decreasing order of
\* moves, and the moves of the entry it dequeues next is the minimum number of
\* knight moves from start to that position over free squares; a move count it
\* returns is one more than the moves of the entry just dequeued.
BfsDequeuesByDistance ==
  /\ [](pc = "bfs" =>
          /\ queue # <<>>
          /\ \A i \in 1 .. Len(queue) - 1 : queue[i][2] <= queue[i + 1][2]
          /\ queue[Len(queue)][2] <= Head(queue)[2] + 1
          /\ Head(queue)[2] = MinMoves(start, Head(queue)[1]))
  /\ [][pc = "bfs" =>
          /\ pc' = "bfs" => Head(queue')[2] >= Head(queue)[2]
          /\ (pc' = "idle" /\ result'[call] # -1) =>
               result'[call] = Head(queue)[2] + 1]_vars

\* C22's case: bfs is about to dequeue a position three moves or more from
\* start while positions one move further are queued behind it.
BfsQueueSpansTwoLayers ==
  /\ pc = "bfs"
  /\ Head(queue)[2] >= 3
  /\ queue[Len(queue)][2] = Head(queue)[2] + 1

\* C23: while a_star runs the g-score recorded for a position never increases,
\* and an entry is pushed for a position only when no g-score was recorded for
\* it or the entry's is strictly smaller than the one recorded.
GScoresOnlyImprove ==
  [][(pc = "a_star" /\ pc' = "a_star") =>
       /\ \A p \in DOMAIN g_scores :
            p \in DOMAIN g_scores' /\ g_scores'[p] <= g_scores[p]
       /\ \A e \in open_set' \ open_set :
            /\ e[3] \notin DOMAIN g_scores \/ e[2] < g_scores[e[3]]
            /\ g_scores'[e[3]] = e[2]]_vars

\* C23's case: a_star holds g-scores of three moves and more and a heap of
\* several entries.
AStarDeepSearch ==
  /\ pc = "a_star"
  /\ Cardinality(open_set) >= 3
  /\ \E p \in DOMAIN g_scores : g_scores[p] >= 3

BoundStrictlyGrows ==
  [][/\ (pc = "idle" /\ pc' = "ida_star") =>
          /\ bound' = _knight_distance_heuristic(start, end)
          /\ path' = <<start>>
     /\ (pc = "ida_star" /\ pc' = "ida_star") =>
          IF path' = <<start>>
          THEN bound' > bound /\ bound' < inf
          ELSE bound' = bound]_vars

\* C25's case: ida_star starts its third iteration or a later one.
ThirdIteration ==
  /\ pc = "ida_star"
  /\ path = <<start>>
  /\ bound >= _knight_distance_heuristic(start, end) + 2

\* The squares a knight reaches from the squares of `frontier` over free
\* squares, `reached` included.
RECURSIVE Grow(_, _)
Grow(frontier, reached) ==
  LET fresh == {q \in UNION {KnightSteps(p) : p \in frontier} : Free(q)} \ reached
  IN  IF fresh = {} THEN reached ELSE Grow(fresh, reached \cup fresh)

\* The component of start: start and the free squares a knight reaches from it.
Component == Grow({start}, {start})

\* The number of moves to the square of start's component farthest from the
\* squares of `frontier`, which are k moves from the origin.
RECURSIVE Farthest(_, _, _)
Farthest(frontier, reached, k) ==
  LET fresh == {q \in UNION {KnightSteps(p) : p \in frontier} :
                  Free(q) \/ q = start} \ reached
  IN  IF fresh = {} THEN k ELSE Farthest(fresh, reached \cup fresh, k + 1)

\* The diameter of start's component: the largest shortest-path distance
\* between two of its squares.
Diameter ==
  LET far == {Farthest({p}, {p}, 0) : p \in Component}
  IN  CHOOSE d \in far : \A o \in far : o <= d

\* ida_star is at the top of an iteration of its "while True" loop.
IterationStarts == pc = "ida_star" /\ path = <<start>> /\ frames = <<>>

\* C26 as stated: in every iteration of ida_star's outer loop the bound is at
\* most the diameter of the component of free squares reachable from start.
BoundWithinDiameter == IterationStarts => bound <= Diameter

\* The largest heuristic value, towards end, of a square of start's component.
LargestHeuristic ==
  LET hs == {_knight_distance_heuristic(p, end) : p \in Component}
  IN  CHOOSE h \in hs : \A o \in hs : o <= h

\* C26 as amended: in every iteration the bound is at most the minimum number
\* of moves from start to end when end is a free square a knight reaches from
\* start, and so at most the diameter of start's component; when it is not,
\* the bound starts at heuristic(start, end), which can exceed that diameter,
\* and stays at most the number of other squares of the component plus the
\* largest heuristic value of its squares.
BoundWithinDistance ==
  IterationStarts =>
    IF Free(end) /\ Reachable(start, end)
    THEN bound <= MinMoves(start, end)
    ELSE bound <= Cardinality(Component) - 1 + LargestHeuristic

\* C26's case: end cannot be reached, ida_star has deepened its bound, and the
\* bound exceeds the diameter of start's component of several squares.
BoundBeyondDiameter ==
  /\ IterationStarts
  /\ Free(start)
  /\ Free(end)
  /\ ~Reachable(start, end)
  /\ bound > _knight_distance_heuristic(start, end)
  /\ Cardinality(Component) >= 3
  /\ bound > Diameter

\* C27: at every call search(pos, g, bound) of ida_star the path starts at
\* start, ends at pos, holds g + 1 pairwise distinct positions (one per call of
\* search under way), and its consecutive positions are one knight move apart;
\* every iteration of the outer loop restarts from path = [start] with no
\* call of search under way.
PathIsSimple ==
  /\ [](pc = "ida_star" =>
          /\ path # <<>>
          /\ path[1] = start
          /\ Len(path) = Len(frames) + 1
          /\ \A i, j \in 1..Len(path) : path[i] = path[j] => i = j
          /\ \A i \in 1..(Len(path) - 1) : path[i + 1] \in KnightSteps(path[i]))
  /\ [][(pc = "ida_star" /\ pc' = "ida_star" /\ bound' # bound) =>
          (path' = <<start>> /\ frames' = <<>>)]_vars

\* C27's case: a later iteration of ida_star, several moves into a probe.
DeepProbe ==
  /\ pc = "ida_star"
  /\ bound > _knight_distance_heuristic(start, end)
  /\ Len(path) >= 4

\* C28: no call of solve, whatever its method and however it ends, changes
\* rows, cols, bishop_pos or bishop_line_of_sight: after any sequence of calls
\* the obstacle set is the one the constructor computed from rows, cols and
\* bishop_pos.
ConfigurationIsFixed ==
  /\ [](bishop_line_of_sight = _get_bishop_line_of_sight(rows, cols, bishop_pos))
  /\ [][/\ rows' = rows
        /\ cols' = cols
        /\ bishop_pos' = bishop_pos
        /\ bishop_line_of_sight' = bishop_line_of_sight]_vars

\* C28's case: after calls that returned, one ended in the unknown-method
\* error, on a board whose bishop sees other squares than its own.
RaisedAfterCalls ==
  /\ pc = "raised"
  /\ DOMAIN result # {}
  /\ Cardinality(bishop_line_of_sight) >= 3

\* Both calls of the test suite, "bfs" and "auto", have returned on a board on
\* which auto selects a_star.
BothReturnedOnLargeBoard ==
  /\ rows > AutoLimit \/ cols > AutoLimit
  /\ pc = "idle"
  /\ "bfs" \in DOMAIN expansions
  /\ "auto" \in DOMAIN expansions

\* C29 as stated: on the boards for which auto selects a_star, a_star expands
\* strictly fewer positions than bfs for the same board, bishop, start and end.
AStarExpandsStrictlyFewer ==
  BothReturnedOnLargeBoard => expansions["auto"] < expansions["bfs"]

\* C29 as amended: on those boards a_star expands at most as many positions as
\* bfs; a_star need not expand fewer (neither expands any when start = end,
\* and both expand start alone when bfs finds end, or nothing at all, among
\* start's knight moves).
AStarExpandsAtMostAsMany ==
  BothReturnedOnLargeBoard =>
    /\ expansions["auto"] <= expansions["bfs"]
    /\ start = end => expansions["bfs"] = 0
    /\ start # end => expansions["auto"] >= 1

\* C29's case: TEST_CASES[47], where bfs expands 92 positions and a_star 12.
FewerExpansionsOnCase47 ==
  /\ Case47
  /\ BothReturnedOnLargeBoard
  /\ expansions["bfs"] = 92
  /\ expansions["auto"] = 12

\* C30: bfs(end, start) returns what bfs(start, end) returned, for every
\* board, bishop and start and end on the board, seen by the bishop or not: the
\* call with the endpoints swapped leaves the recorded result as it is.
BfsIsSymmetric ==
  [][/\ \A m \in DOMAIN result :
          m \in DOMAIN result' /\ result'[m] = result[m]
     /\ (pc = "bfs" /\ pc' = "idle" /\ "bfs" \in DOMAIN result) =>
          result'["bfs"] = MinMoves(end, start)]_vars

\* C30's case: bfs runs from a start the bishop sees to a free end, after it
\* found a path of two moves or more the other way round.
BfsRunsBackFromSeenSquare ==
  /\ pc = "bfs"
  /\ "bfs" \in DOMAIN result
  /\ result["bfs"] >= 2
  /\ Seen(start)
  /\ Free(end)
  /\ Cardinality(visited) >= 2

====
